---- MODULE Spec2Model ----
(***************************************************************************)
(* Model of src/src/data/calculate_positions.py: the force-directed 3D     *)
(* layout (force_directed_3d), the range normalisation                     *)
(* (normalize_positions) and the pipeline that calls them (main).          *)
(*                                                                         *)
(* Arithmetic.  The program computes in IEEE-754 binary floating point     *)
(* (Python floats and numpy float64).  The model keeps the format and      *)
(* shrinks its width: a number is an integer count of units of             *)
(* 2^-FracBits that has at most Precision significant bits, and every      *)
(* operation returns the representable number nearest to the exact         *)
(* result, ties to even, as the hardware does.  float64 is the same        *)
(* format with 53 significant bits.                                        *)
(***************************************************************************)
EXTENDS Integers, Sequences, FiniteSets, TLC

\* ------------------------------------------------------------------ bounds
Precision == 6      \* significant bits of a number (53 in float64)
FracBits  == 10     \* a unit is 2^-FracBits
MaxIter   == 2      \* largest iteration count a run is given
MaxEdges  == 2      \* longest edge list a run is given

\* -------------------------------------------------------- integer helpers
Abs(x) == IF x < 0 THEN -x ELSE x
Sign(x) == IF x < 0 THEN -1 ELSE IF x > 0 THEN 1 ELSE 0
Max2(a, b) == IF a >= b THEN a ELSE b
Min2(a, b) == IF a <= b THEN a ELSE b

RECURSIVE BitLen(_)
\* number of binary digits of x >= 0
BitLen(x) == IF x = 0 THEN 0 ELSE 1 + BitLen(x \div 2)

RECURSIVE TrailingZeros(_)
\* exponent of the largest power of two dividing x > 0
TrailingZeros(x) == IF x % 2 = 1 THEN 0 ELSE 1 + TrailingZeros(x \div 2)

\* x > 0 as Mantissa(x) * 2^TrailingZeros(x)
Mantissa(x) == x \div (2 ^ TrailingZeros(x))

RECURSIVE ISqrtFrom(_, _)
\* largest r with r * r <= y, searched upward from bit b
ISqrtFrom(y, b) ==
    IF b < 0 THEN 0
    ELSE LET hi == ISqrtFrom(y \div 4, b - 1) * 2
         IN IF (hi + 1) * (hi + 1) <= y THEN hi + 1 ELSE hi

ISqrt(y) == ISqrtFrom(y, (BitLen(y) + 1) \div 2)

\* ------------------------------------------------- floating-point rounding
\* The representable number nearest to (q + f) * 2^E units, where q >= 0 is
\* an integer and f is a fraction in [0, 1) that is nonzero iff sticky;
\* ties go to the even mantissa.  A sticky q has more than Precision + 1 bits.
RoundBits(q, sticky, E) ==
    IF q = 0 THEN 0
    ELSE LET L    == BitLen(q)
             drop == Max2(L - Precision, -E)
         IN IF drop <= 0 THEN q * (2 ^ E)
            ELSE IF drop > L + 1 THEN 0
            ELSE LET m    == q \div (2 ^ drop)
                     rem  == q % (2 ^ drop)
                     half == 2 ^ (drop - 1)
                     up   == rem > half \/ (rem = half /\ (sticky \/ m % 2 = 1))
                 IN (IF up THEN m + 1 ELSE m) * (2 ^ (drop + E))

\* The representable number nearest to (n / d) * 2^e units, n >= 0, d > 0.
Round(n, d, e) ==
    IF n = 0 THEN 0
    ELSE LET a == Max2(0, Precision + 2 + BitLen(d) - BitLen(n))
             N == n * (2 ^ a)
         IN RoundBits(N \div d, N % d # 0, e - a)

\* A decimal literal or an integer of the source as a float.
Float(n, d) == Sign(n) * Round(Abs(n), d, FracBits)

\* x + y, x - y, x * y, x / y (y # 0) and sqrt(x) (x >= 0), correctly rounded.
fadd(x, y) == LET s == x + y IN Sign(s) * Round(Abs(s), 1, 0)
fsub(x, y) == fadd(x, -y)
fmul(x, y) ==
    IF x = 0 \/ y = 0 THEN 0
    ELSE Sign(x) * Sign(y) *
         Round(Mantissa(Abs(x)) * Mantissa(Abs(y)), 1,
               TrailingZeros(Abs(x)) + TrailingZeros(Abs(y)) - FracBits)
fdiv(x, y) ==
    IF x = 0 \/ y = 0 THEN 0   \* x / 0 is inf or nan in numpy: div_by_zero records it
    ELSE Sign(x) * Sign(y) *
         Round(Mantissa(Abs(x)), Mantissa(Abs(y)),
               TrailingZeros(Abs(x)) - TrailingZeros(Abs(y)) + FracBits)
fsqrt(x) ==
    IF x = 0 THEN 0
    ELSE LET m    == Mantissa(x)
             t    == TrailingZeros(x) + FracBits
             need == Max2(0, 2 * Precision + 4 - BitLen(m))
             s    == IF (need - t) % 2 = 0 THEN need ELSE need + 1
             y    == m * (2 ^ s)
             r    == ISqrt(y)
         IN RoundBits(r, r * r # y, (t - s) \div 2)


\* ----------------------------------------------------------------- vectors
Zero3 == <<0, 0, 0>>
VAdd(u, v) == <<fadd(u[1], v[1]), fadd(u[2], v[2]), fadd(u[3], v[3])>>
VSub(u, v) == <<fsub(u[1], v[1]), fsub(u[2], v[2]), fsub(u[3], v[3])>>
VScale(u, c) == <<fmul(u[1], c), fmul(u[2], c), fmul(u[3], c)>>
VQuot(u, c) == <<fdiv(u[1], c), fdiv(u[2], c), fdiv(u[3], c)>>
\* np.linalg.norm of a 3-vector: sqrt(x.x)
norm(u) == fsqrt(fadd(fadd(fmul(u[1], u[1]), fmul(u[2], u[2])), fmul(u[3], u[3])))
\* a vector of integers of the input as floats
Vec(p) == <<Float(p[1], 1), Float(p[2], 1), Float(p[3], 1)>>

\* ------------------------------------------------------ program constants
area == 100
initial_temperature == 10
default_target_range == 15
cooling == Float(98, 100)
one_half == Float(1, 2)
One == Float(1, 1)

\* ------------------------------------------------------------------ inputs
NodeLists == {<<>>, <<"A">>, <<"A", "B">>, <<"A", "B", "C">>, <<"A", "B", "C", "D">>}

Edge(s, t, w) == [source |-> s, target |-> t, weight |-> w]
\* an edge between nodes, an edge to "C" (unknown unless there are three
\* nodes), an edge to an id no node has, and a self-referencing edge
EdgePool == <<Edge("A", "B", 1), Edge("B", "C", 2), Edge("A", "ghost", 5), Edge("B", "B", 3)>>

\* the edge lists over the pool, duplicates included
EdgeLists ==
    {[i \in 1..Len(c) |-> EdgePool[c[i]]] :
        c \in UNION {[1..m -> 1..Len(EdgePool)] : m \in 0..MaxEdges}}

\* what np.random.randn(n, 3) * 5 may return: some of the arrays, among them
\* the origin, coincident nodes, and nodes in general position
InitialPositions(n) ==
    CASE n = 0 -> {<<>>}
      [] n = 1 -> {<<Vec(<<0, 0, 0>>)>>, <<Vec(<<3, -6, 2>>)>>}
      [] n = 2 -> {<<Vec(<<1, 2, -2>>), Vec(<<1, 2, -2>>)>>,
                   <<Vec(<<3, -6, 2>>), Vec(<<-1, 1, 0>>)>>}
      [] n = 3 -> {<<Vec(<<3, -6, 2>>), Vec(<<-1, 1, 0>>), Vec(<<-1, 1, 0>>)>>,
                   <<Vec(<<3, -6, 2>>), Vec(<<-1, 1, 0>>), Vec(<<2, 5, -7>>)>>}
      [] OTHER -> {<<Vec(<<0, 0, 0>>), Vec(<<0, 0, 0>>), Vec(<<0, 0, 0>>), Vec(<<0, 0, 0>>)>>,
                   <<Vec(<<3, -6, 2>>), Vec(<<-1, 1, 0>>), Vec(<<2, 5, -7>>), Vec(<<-4, 0, 1>>)>>}

\* the half-ranges a caller of normalize_positions passes
TargetRanges == {default_target_range, 4}

\* ------------------------------------------- force_directed_3d: the set-up
\* id_to_idx.get(id): the index of the node with this id, 0 for None
id_to_idx(ns, id) ==
    IF \E i \in 1..Len(ns) : ns[i] = id
    THEN CHOOSE i \in 1..Len(ns) : ns[i] = id /\ \A j \in (i + 1)..Len(ns) : ns[j] # id
    ELSE 0

\* whether the loop keeps the edge: both ids resolve
Resolves(ns, e) == id_to_idx(ns, e.source) # 0 /\ id_to_idx(ns, e.target) # 0

retained(ns, es) == SelectSeq(es, LAMBDA e : Resolves(ns, e))

EdgePairs(ns, es) ==
    [i \in 1..Len(retained(ns, es)) |->
        <<id_to_idx(ns, retained(ns, es)[i].source), id_to_idx(ns, retained(ns, es)[i].target)>>]

RawWeights(ns, es) == [i \in 1..Len(retained(ns, es)) |-> retained(ns, es)[i].weight]

\* max_weight without the max: the first retained weight is the divisor
max_weight_first(ws) == IF ws = <<>> THEN 1 ELSE ws[1]

MaxOf(ws) == CHOOSE w \in {ws[i] : i \in 1..Len(ws)} : \A i \in 1..Len(ws) : ws[i] <= w

max_weight(ws) == IF ws = <<>> THEN 1 ELSE MaxOf(ws)

\* w / max_weight for every retained edge (max_weight # 0)
EdgeWeights(ws) == [i \in 1..Len(ws) |-> Float(ws[i], max_weight(ws))]

\* k = np.sqrt(area / n), n # 0
OptimalDistance(n) == fsqrt(fdiv(Float(area, 1), Float(n, 1)))

\* apply_force without its second half: displacements[j] is left alone
apply_force_one_sided(disp, i, j, v) == [disp EXCEPT ![i] = VAdd(@, v)]

\* RepulsiveForce without the guard distance > 0
RepulsiveForceUnguarded(pos, i, j, kk) ==
    LET delta    == VSub(pos[i], pos[j])
        distance == norm(delta)
    IN [applied |-> TRUE,
        v |-> VScale(VQuot(delta, distance), fdiv(fmul(kk, kk), distance)),
        div0 |-> distance = 0]

\* Move without the clamp min(displacement_length, temperature)
MoveUncapped(d, temp) ==
    LET displacement_length == norm(d)
    IN IF displacement_length > 0
       THEN [moved |-> TRUE,
             step |-> VScale(VQuot(d, displacement_length), displacement_length),
             div0 |-> displacement_length = 0]
       ELSE [moved |-> FALSE, step |-> Zero3, div0 |-> FALSE]

\* range(abs(iterations)) in place of range(iterations)
LoopContinuesAbs(done, count) == done < Abs(count)

\* ------------------------------------------ force_directed_3d: one iteration
\* displacements[i] += v; displacements[j] -= v
apply_force(disp, i, j, v) ==
    LET d1 == [disp EXCEPT ![i] = VAdd(@, v)]
    IN [d1 EXCEPT ![j] = VSub(@, v)]

\* The repulsion of the pair (i, j): whether the guard lets it through, the
\* vector direction * force, and whether a division by zero was executed.
RepulsiveForce(pos, i, j, kk) ==
    LET delta    == VSub(pos[i], pos[j])
        distance == norm(delta)
    IN IF distance > 0
       THEN [applied |-> TRUE,
             v |-> VScale(VQuot(delta, distance), fdiv(fmul(kk, kk), distance)),
             div0 |-> distance = 0]
       ELSE [applied |-> FALSE, v |-> Zero3, div0 |-> FALSE]

\* The attraction along the retained edge (i, j) of normalized weight w.
AttractiveForce(pos, i, j, w, kk) ==
    LET delta    == VSub(pos[j], pos[i])
        distance == norm(delta)
    IN IF distance > 0
       THEN [applied |-> TRUE,
             v |-> VScale(VQuot(delta, distance),
                          fmul(fdiv(fmul(distance, distance), kk),
                               fadd(one_half, fmul(one_half, w)))),
             div0 |-> distance = 0 \/ kk = 0]
       ELSE [applied |-> FALSE, v |-> Zero3, div0 |-> FALSE]

Accumulate(acc, i, j, f) ==
    [displacements |-> IF f.applied THEN apply_force(acc.displacements, i, j, f.v)
                       ELSE acc.displacements,
     div0 |-> acc.div0 \/ f.div0]

RECURSIVE PairsFrom(_, _, _)
PairsFrom(i, j, n) ==
    IF i > n THEN <<>>
    ELSE IF j > n THEN PairsFrom(i + 1, i + 2, n)
    ELSE <<<<i, j>>>> \o PairsFrom(i, j + 1, n)

\* for i in range(n): for j in range(i + 1, n)
Pairs(n) == PairsFrom(1, 2, n)

RECURSIVE repulsion(_, _, _, _)
repulsion(acc, prs, pos, kk) ==
    IF prs = <<>> THEN acc
    ELSE repulsion(Accumulate(acc, Head(prs)[1], Head(prs)[2],
                              RepulsiveForce(pos, Head(prs)[1], Head(prs)[2], kk)),
                   Tail(prs), pos, kk)

RECURSIVE attraction(_, _, _, _, _)
attraction(acc, prs, ws, pos, kk) ==
    IF prs = <<>> THEN acc
    ELSE attraction(Accumulate(acc, Head(prs)[1], Head(prs)[2],
                               AttractiveForce(pos, Head(prs)[1], Head(prs)[2], Head(ws), kk)),
                    Tail(prs), Tail(ws), pos, kk)

\* One node's move: the step added to its position and whether the division
\* by the displacement's length was a division by zero.
Move(d, temp) ==
    LET displacement_length == norm(d)
    IN IF displacement_length > 0
       THEN [moved |-> TRUE,
             step |-> VScale(VQuot(d, displacement_length), Min2(displacement_length, temp)),
             div0 |-> displacement_length = 0]
       ELSE [moved |-> FALSE, step |-> Zero3, div0 |-> FALSE]

\* positions[i] += step where the displacement is not zero
Moved(p, d, temp) == IF Move(d, temp).moved THEN VAdd(p, Move(d, temp).step) ELSE p

\* range(iterations) has another element
LoopContinues(done, count) == done < count

\* ------------------------------------------------------ normalize_positions
RECURSIVE VSum(_)
VSum(pos) == IF pos = <<>> THEN Zero3 ELSE VAdd(Head(pos), VSum(Tail(pos)))

\* normalize_positions preceded by a centring on the centroid
normalize_centred(pos, target_range) ==
    LET centroid  == VQuot(VSum(pos), Float(Len(pos), 1))
        centred   == [i \in 1..Len(pos) |-> VSub(pos[i], centroid)]
        cs        == {Abs(centred[i][c]) : i \in 1..Len(pos), c \in 1..3}
        max_coord == CHOOSE m \in cs : \A x \in cs : x <= m
    IN IF max_coord > 0
       THEN [i \in 1..Len(pos) |-> VScale(centred[i], fdiv(Float(target_range, 1), max_coord))]
       ELSE centred

\* normalize_positions with np.max(positions) in place of np.max(np.abs(positions))
normalize_signed(pos, target_range) ==
    LET cs        == {pos[i][c] : i \in 1..Len(pos), c \in 1..3}
        max_coord == CHOOSE m \in cs : \A x \in cs : x <= m
    IN IF max_coord > 0
       THEN [i \in 1..Len(pos) |-> VScale(pos[i], fdiv(Float(target_range, 1), max_coord))]
       ELSE pos

\* np.max(np.abs(positions)), positions not empty
MaxAbs(pos) ==
    LET cs == {Abs(pos[i][c]) : i \in 1..Len(pos), c \in 1..3}
    IN CHOOSE m \in cs : \A x \in cs : x <= m

normalize_positions(pos, target_range) ==
    LET max_coord == MaxAbs(pos)
    IN IF max_coord > 0
       THEN [i \in 1..Len(pos) |-> VScale(pos[i], fdiv(Float(target_range, 1), max_coord))]
       ELSE pos

\* ---------------------------------------------------------------- main
\* next(n for n in nodes if n['id'] == id) finds a node
Found(ns, id) == \E i \in 1..Len(ns) : ns[i] = id

\* The exception the statistics block raises, "none" if it completes: next()
\* on an id no node has raises StopIteration, min() of no edge lengths
\* raises ValueError.
StatisticsError(ns, es) ==
    IF \E i \in 1..Len(es) : ~Found(ns, es[i].source) \/ ~Found(ns, es[i].target)
    THEN "StopIteration"
    ELSE IF es = <<>> THEN "ValueError" ELSE "none"

NoOutput == [written |-> FALSE, nodes |-> <<>>, links |-> <<>>]

\* ------------------------------------------------------------------- state
VARIABLES
    caller,         \* "main", or "direct": force_directed_3d and normalize_positions called as functions
    nodes,          \* the node ids, in input order
    edges,          \* the edge records, in input order
    iterations,     \* the iteration count passed to force_directed_3d
    pc,             \* where the run is
    positions,      \* the position array
    edge_pairs,     \* the retained edges as index pairs
    edge_weights,   \* their normalized weights
    k,              \* the optimal distance
    temperature,
    iteration,      \* steps completed
    displacements,  \* the displacement array of the current step
    div_by_zero,    \* a division by zero has been executed
    error,          \* the exception raised, "none" if none
    exit_code,      \* what main returned, -1 before it returns
    output,         \* the positioned graph main wrote
    initial,        \* the random initial positions
    step_start,     \* the positions when the current step began
    temp_used,      \* the temperature of the last completed step
    unscaled,       \* the position array normalize_positions was given
    target_range    \* the half-range normalize_positions was given, 0 before

vars == <<caller, nodes, edges, iterations, pc, positions, edge_pairs, edge_weights, k,
          temperature, iteration, displacements, div_by_zero, error, exit_code, output,
          initial, step_start, temp_used, unscaled, target_range>>

n == Len(nodes)

Init ==
    /\ caller \in {"main", "direct"}
    /\ nodes \in NodeLists
    /\ edges \in EdgeLists
    /\ iterations \in -1..MaxIter
    /\ caller = "main" => iterations = MaxIter   \* main passes iterations=500
    /\ pc = "start"
    /\ positions = <<>>
    /\ edge_pairs = <<>>
    /\ edge_weights = <<>>
    /\ k = 0
    /\ temperature = 0
    /\ iteration = 0
    /\ displacements = <<>>
    /\ div_by_zero = FALSE
    /\ error = "none"
    /\ exit_code = -1
    /\ output = NoOutput
    /\ initial = <<>>
    /\ step_start = <<>>
    /\ temp_used = 0
    /\ unscaled = <<>>
    /\ target_range = 0

\* Where a raised exception goes: main's except clause, or the caller.
Raise(e) ==
    /\ error' = e
    /\ pc' = IF caller = "main" THEN "except" ELSE "raised"

\* force_directed_3d up to the loop: random positions, the id mapping, the
\* retained edges and their weights, k and the temperature.  w / max_weight
\* raises ZeroDivisionError when max_weight is 0, area / n when n is 0.
Call ==
    /\ pc = "start"
    /\ \E p \in InitialPositions(n) :
          /\ positions' = p
          /\ initial' = p
    /\ edge_pairs' = EdgePairs(nodes, edges)
    /\ IF max_weight(RawWeights(nodes, edges)) = 0
       THEN /\ Raise("ZeroDivisionError")
            /\ UNCHANGED <<edge_weights, k, temperature>>
       ELSE /\ edge_weights' = EdgeWeights(RawWeights(nodes, edges))
            /\ IF n = 0
               THEN /\ Raise("ZeroDivisionError")
                    /\ UNCHANGED <<k, temperature>>
               ELSE /\ k' = OptimalDistance(n)
                    /\ temperature' = Float(initial_temperature, 1)
                    /\ pc' = "loop"
                    /\ UNCHANGED error
    /\ UNCHANGED <<caller, nodes, edges, iterations, iteration, displacements, div_by_zero,
                   exit_code, output, step_start, temp_used, unscaled, target_range>>

\* The start of an iteration: displacements = zeros, then the repulsion of
\* every pair.
Repulsion ==
    /\ pc = "loop"
    /\ ~div_by_zero
    /\ LoopContinues(iteration, iterations)
    /\ LET r == repulsion([displacements |-> [i \in 1..n |-> Zero3], div0 |-> FALSE],
                          Pairs(n), positions, k)
       IN /\ displacements' = r.displacements
          /\ div_by_zero' = r.div0
    /\ step_start' = positions
    /\ pc' = "attract"
    /\ UNCHANGED <<caller, nodes, edges, iterations, positions, edge_pairs, edge_weights, k,
                   temperature, iteration, error, exit_code, output, initial, temp_used,
                   unscaled, target_range>>

\* The attraction along every retained edge.
Attraction ==
    /\ pc = "attract"
    /\ ~div_by_zero
    /\ LET r == attraction([displacements |-> displacements, div0 |-> FALSE],
                           edge_pairs, edge_weights, positions, k)
       IN /\ displacements' = r.displacements
          /\ div_by_zero' = r.div0
    /\ pc' = "apply"
    /\ UNCHANGED <<caller, nodes, edges, iterations, positions, edge_pairs, edge_weights, k,
                   temperature, iteration, error, exit_code, output, initial, step_start,
                   temp_used, unscaled, target_range>>

\* The displacements applied, capped by the temperature, and the cooling.
Apply ==
    /\ pc = "apply"
    /\ ~div_by_zero
    /\ positions' = [i \in 1..n |-> Moved(positions[i], displacements[i], temperature)]
    /\ div_by_zero' = \E i \in 1..n : Move(displacements[i], temperature).div0
    /\ temp_used' = temperature
    /\ temperature' = fmul(temperature, cooling)
    /\ iteration' = iteration + 1
    /\ pc' = "loop"
    /\ UNCHANGED <<caller, nodes, edges, iterations, edge_pairs, edge_weights, k,
                   displacements, error, exit_code, output, initial, step_start, unscaled,
                   target_range>>

\* The loop is over: return positions.
Return ==
    /\ pc = "loop"
    /\ ~div_by_zero
    /\ ~LoopContinues(iteration, iterations)
    /\ pc' = "returned"
    /\ UNCHANGED <<caller, nodes, edges, iterations, positions, edge_pairs, edge_weights, k,
                   temperature, iteration, displacements, div_by_zero, error, exit_code,
                   output, initial, step_start, temp_used, unscaled, target_range>>

\* normalize_positions on the returned array; main passes target_range=15.
Normalize ==
    /\ pc = "returned"
    /\ \E r \in TargetRanges :
          /\ caller = "main" => r = default_target_range
          /\ target_range' = r
          /\ positions' = normalize_positions(positions, r)
    /\ unscaled' = positions
    /\ pc' = "normalized"
    /\ UNCHANGED <<caller, nodes, edges, iterations, edge_pairs, edge_weights, k,
                   temperature, iteration, displacements, div_by_zero, error, exit_code,
                   output, initial, step_start, temp_used>>

\* main: the positions attached to the nodes, then the statistics, which
\* look every edge's endpoints up among the nodes.
Statistics ==
    /\ pc = "normalized"
    /\ caller = "main"
    /\ IF StatisticsError(nodes, edges) = "none"
       THEN pc' = "save" /\ UNCHANGED error
       ELSE Raise(StatisticsError(nodes, edges))
    /\ UNCHANGED <<caller, nodes, edges, iterations, positions, edge_pairs, edge_weights, k,
                   temperature, iteration, displacements, div_by_zero, exit_code, output,
                   initial, step_start, temp_used, unscaled, target_range>>

\* main: the positioned graph written, return 0.
Save ==
    /\ pc = "save"
    /\ output' = [written |-> TRUE,
                  nodes |-> [i \in 1..n |-> [id |-> nodes[i], xyz |-> positions[i]]],
                  links |-> edges]
    /\ exit_code' = 0
    /\ pc' = "exited"
    /\ UNCHANGED <<caller, nodes, edges, iterations, positions, edge_pairs, edge_weights, k,
                   temperature, iteration, displacements, div_by_zero, error, initial,
                   step_start, temp_used, unscaled, target_range>>

\* main: except Exception: print the error, return 1.
Except ==
    /\ pc = "except"
    /\ exit_code' = 1
    /\ pc' = "exited"
    /\ UNCHANGED <<caller, nodes, edges, iterations, positions, edge_pairs, edge_weights, k,
                   temperature, iteration, displacements, div_by_zero, error, output,
                   initial, step_start, temp_used, unscaled, target_range>>

Next ==
    \/ Call
    \/ Repulsion
    \/ Attraction
    \/ Apply
    \/ Return
    \/ Normalize
    \/ Statistics
    \/ Save
    \/ Except

Spec == Init /\ [][Next]_vars

\* ================================================================ the claims
RECURSIVE SumSeq(_)
SumSeq(q) == IF q = <<>> THEN 0 ELSE Head(q) + SumSeq(Tail(q))

RECURSIVE Pow(_, _)
Pow(b, e) == IF e = 0 THEN 1 ELSE b * Pow(b, e - 1)

\* 2^(Precision - 1): the reciprocal of the machine epsilon 2^(1 - Precision)
EpsInv == 2 ^ (Precision - 1)

CeilDiv(a, b) == (a + b - 1) \div b

NodeIds == {nodes[i] : i \in 1..n}

\* an edge of the input whose source or target is no node id
Unknown(e) == e.source \notin NodeIds \/ e.target \notin NodeIds
HasUnknownEdge == \E i \in 1..Len(edges) : Unknown(edges[i])

\* the edge list with those edges removed
KnownEdges == SelectSeq(edges, LAMBDA e : ~Unknown(e))
KnownWeights == [i \in 1..Len(KnownEdges) |-> KnownEdges[i].weight]

\* the positions one whole step leads to
StepFrom(pos, temp, prs, ws, kk) ==
    LET rep == repulsion([displacements |-> [i \in 1..Len(pos) |-> Zero3], div0 |-> FALSE],
                         Pairs(Len(pos)), pos, kk)
        att == attraction(rep, prs, ws, pos, kk)
    IN [i \in 1..Len(pos) |-> Moved(pos[i], att.displacements[i], temp)]

RECURSIVE RunFrom(_, _, _, _, _, _)
\* the positions after the given number of steps
RunFrom(pos, temp, steps, prs, ws, kk) ==
    IF steps = 0 THEN pos
    ELSE RunFrom(StepFrom(pos, temp, prs, ws, kk), fmul(temp, cooling), steps - 1, prs, ws, kk)

\* the positions of the run on the edge list without the unknown-id edges,
\* from the same initial positions, after as many steps
WithoutUnknownEdges ==
    RunFrom(initial, Float(initial_temperature, 1), iteration,
            EdgePairs(nodes, KnownEdges), EdgeWeights(RawWeights(nodes, KnownEdges)), k)

\* Unknown-id edges leave every step's positions as they are without them
\* (checked wherever the layout runs, that is for n >= 1).
UnknownEdgesLeavePositions ==
    (HasUnknownEdge /\ pc = "loop") => positions = WithoutUnknownEdges

\* C1: for every node list and edge list, a run whose edge list holds edges
\* with an unknown source or target has after every step the positions of
\* the run with those edges removed, and raises no error.
C1_UnknownEdgesIgnored ==
    HasUnknownEdge =>
        /\ error # "ZeroDivisionError"
        /\ pc = "loop" => positions = WithoutUnknownEdges

\* C2: force_directed_3d on an empty node list returns an empty position
\* array and raises no error.
C2_EmptyGraphReturnsEmpty ==
    (n = 0 /\ pc # "start") => (error = "none" /\ positions = <<>>)

\* every coordinate of the array lies within [-r, r] widened by one machine
\* epsilon, and the largest one is within one machine epsilon of r
WithinRounding(pos, r) ==
    /\ \A i \in 1..Len(pos) : \A c \in 1..3 :
          Abs(pos[i][c]) * EpsInv <= Float(r, 1) * (EpsInv + 1)
    /\ MaxAbs(pos) * EpsInv >= Float(r, 1) * (EpsInv - 1)

\* C3 as stated: one node and no edges end at (0, 0, 0) after
\* force_directed_3d and normalize_positions, whatever the initial position.
C3_SingleNodeAtOrigin ==
    (n = 1 /\ edges = <<>> /\ pc = "normalized") => positions = <<Zero3>>

\* C3 as amended: the steps leave the single node where it started, and
\* normalize_positions rescales that position so that its largest absolute
\* coordinate is the half-range (up to rounding), every coordinate keeping
\* its sign; the result is (0, 0, 0) only for the initial position (0, 0, 0).
C3_SingleNodeRescaled ==
    (n = 1 /\ edges = <<>> /\ pc = "normalized") =>
        /\ unscaled = initial
        /\ IF initial = <<Zero3>>
           THEN positions = <<Zero3>>
           ELSE /\ WithinRounding(positions, target_range)
                /\ \A c \in 1..3 : Sign(positions[1][c]) = Sign(initial[1][c])

C3_Witness ==
    /\ n = 1 /\ edges = <<>> /\ pc = "normalized"
    /\ iteration >= 1
    /\ initial # <<Zero3>>

\* C4 as stated: with max_coord > 0 every coordinate c of the result has
\* |c| <= R and one has |c| = R; with max_coord = 0 the array is unchanged.
C4_NormalizedExactly ==
    pc = "normalized" =>
        IF MaxAbs(unscaled) > 0
        THEN /\ \A i \in 1..n : \A c \in 1..3 : Abs(positions[i][c]) <= Float(target_range, 1)
             /\ \E i \in 1..n : \E c \in 1..3 : Abs(positions[i][c]) = Float(target_range, 1)
        ELSE positions = unscaled

\* C4 as amended: with max_coord > 0 every coordinate c of the result has
\* |c| <= R (1 + eps) and one has |c| >= R (1 - eps), eps the machine
\* epsilon; with max_coord = 0 the array is unchanged.
C4_NormalizedWithinRounding ==
    pc = "normalized" =>
        IF MaxAbs(unscaled) > 0
        THEN WithinRounding(positions, target_range)
        ELSE positions = unscaled

C4_Witness ==
    /\ pc = "normalized"
    /\ n >= 2
    /\ iteration >= 1
    /\ MaxAbs(unscaled) > 0
    /\ MaxAbs(positions) # Float(target_range, 1)

\* C5 as stated: a run given iterations <= 0 is rejected before any
\* simulation and never returns a position array.
C5_NonPositiveRejected ==
    iterations <= 0 => pc \notin {"returned", "normalized"}

\* C5 as amended: a run given iterations <= 0 is not rejected.  It takes no
\* step; on a non-empty graph it raises nothing and returns the initial
\* positions, and on an empty graph it raises the ZeroDivisionError every
\* run on an empty graph raises.
C5_NonPositiveTakesNoStep ==
    (iterations <= 0 /\ pc # "start") =>
        /\ iteration = 0
        /\ IF n = 0
           THEN error = "ZeroDivisionError" /\ pc = "raised"
           ELSE /\ error = "none"
                /\ pc \in {"loop", "returned", "normalized"}
                /\ pc \in {"loop", "returned"} => positions = initial
                /\ pc = "normalized" => unscaled = initial

C5_Witness ==
    /\ iterations < 0
    /\ n >= 2
    /\ pc = "returned"
    /\ positions = initial

\* C6: on a graph of n >= 1 nodes no division by zero is executed; a pair
\* of nodes at the same position gets no repulsion, an edge whose endpoints
\* are at the same position (a self-referencing edge among them) gets no
\* attraction, so that nodes all at one position accumulate no displacement,
\* and a node whose displacement is zero keeps its position.
C6_NoDivisionByZero ==
    n >= 1 =>
        /\ ~div_by_zero
        /\ pc \in {"attract", "apply"} =>
              /\ \A i \in 1..n : \A j \in (i + 1)..n :
                    step_start[i] = step_start[j] =>
                        ~RepulsiveForce(step_start, i, j, k).applied
              /\ \A e \in 1..Len(edge_pairs) :
                    step_start[edge_pairs[e][1]] = step_start[edge_pairs[e][2]] =>
                        ~AttractiveForce(step_start, edge_pairs[e][1], edge_pairs[e][2],
                                         edge_weights[e], k).applied
        /\ (pc = "apply" /\ \A i, j \in 1..n : positions[i] = positions[j]) =>
              \A i \in 1..n : displacements[i] = Zero3
        /\ (pc = "loop" /\ iteration >= 1) =>
              \A i \in 1..n : displacements[i] = Zero3 => positions[i] = step_start[i]

C6_Witness ==
    /\ pc = "loop"
    /\ iteration >= 1
    /\ \E i \in 1..n : \E j \in (i + 1)..n : step_start[i] = step_start[j]
    /\ \E e \in 1..Len(edge_pairs) : edge_pairs[e][1] = edge_pairs[e][2]
    /\ \E i \in 1..n : displacements[i] = Zero3 /\ positions[i] = step_start[i]

\* C7: when the retained edges all have positive weight, every normalized
\* weight lies in [0, 1], an edge of maximum weight has normalized weight
\* exactly 1, and equal weights are all normalized to 1.
C7_WeightsNormalized ==
    (pc # "start" /\ \A i \in 1..Len(KnownWeights) : KnownWeights[i] > 0) =>
        /\ Len(edge_weights) = Len(KnownWeights)
        /\ \A i \in 1..Len(KnownWeights) :
              /\ 0 <= edge_weights[i] /\ edge_weights[i] <= One
              /\ (\A j \in 1..Len(KnownWeights) : KnownWeights[j] <= KnownWeights[i]) =>
                    edge_weights[i] = One
        /\ (\A i, j \in 1..Len(KnownWeights) : KnownWeights[i] = KnownWeights[j]) =>
              \A i \in 1..Len(KnownWeights) : edge_weights[i] = One

C7_Witness ==
    /\ pc = "loop"
    /\ \E i, j \in 1..Len(edge_weights) :
          /\ edge_weights[i] = One
          /\ 0 < edge_weights[j] /\ edge_weights[j] < One

\* the square of the distance a node moved in the last step is at most b^2
MovedAtMost(i, b) ==
    /\ \A c \in 1..3 : Abs(positions[i][c] - step_start[i][c]) <= b
    /\ SumSeq([c \in 1..3 |-> (positions[i][c] - step_start[i][c])
                               * (positions[i][c] - step_start[i][c])]) <= b * b

\* C8 as stated: in a step every node's position changes by a vector of
\* length at most the step's temperature; every step, one in which no node
\* moved too, multiplies the temperature by 0.98, so that it decreases
\* strictly and stays above 0.
C8_StepWithinTemperature ==
    (pc = "loop" /\ iteration >= 1) =>
        /\ \A i \in 1..n : MovedAtMost(i, temp_used)
        /\ 0 < temperature /\ temperature < temp_used

\* 10 * 0.98^t as the fraction TempNum(t) / TempDen(t)
TempNum(t) == IF t = 0 THEN initial_temperature ELSE Pow(49, t)
TempDen(t) == IF t = 0 THEN 1 ELSE 5 * Pow(50, t - 1)

\* C8 as amended: the length is at most the step's temperature up to
\* rounding, that is at most temperature * (1 + 3 eps) + eps * (the node's
\* largest absolute coordinate); the temperature is the rounded product of
\* 10.0 and t factors 0.98, within a relative 2 t eps of 10 * 0.98^t; every
\* step multiplies it by 0.98, so that it decreases strictly and stays above 0.
C8_StepWithinTemperatureRounded ==
    (pc = "loop" /\ iteration >= 1) =>
        /\ \A i \in 1..n :
              MovedAtMost(i, CeilDiv(temp_used * (EpsInv + 3) + MaxAbs(<<positions[i]>>), EpsInv))
        /\ 0 < temperature /\ temperature < temp_used
        /\ Abs(temperature * TempDen(iteration) - (2 ^ FracBits) * TempNum(iteration))
              <= CeilDiv(2 * iteration * (2 ^ FracBits) * TempNum(iteration), EpsInv)

C8_Witness ==
    /\ pc = "loop"
    /\ iteration >= 2
    /\ \E i \in 1..n : norm(displacements[i]) > temp_used /\ positions[i] # step_start[i]
    /\ \E i \in 1..n : norm(displacements[i]) < temp_used /\ positions[i] # step_start[i]

\* C9: main on a graph with an edge whose source or target is no node id
\* does not fail: it returns 0 and writes the output with the edge list
\* unchanged.  (Stated for n >= 1; for n = 0 see C2.)
C9_MainIgnoresUnknownEdges ==
    (caller = "main" /\ n >= 1 /\ HasUnknownEdge /\ pc = "exited") =>
        /\ exit_code = 0
        /\ output.written
        /\ output.links = edges

\* the force vectors one step adds to one node and subtracts from another
ForcesApplied ==
    LET prs == Pairs(n)
        rep == [i \in 1..Len(prs) |-> RepulsiveForce(step_start, prs[i][1], prs[i][2], k)]
        att == [e \in 1..Len(edge_pairs) |->
                   AttractiveForce(step_start, edge_pairs[e][1], edge_pairs[e][2],
                                   edge_weights[e], k)]
    IN SelectSeq(rep, LAMBDA f : f.applied) \o SelectSeq(att, LAMBDA f : f.applied)

\* the sum over the nodes of coordinate c of the displacements
DisplacementSum(c) == SumSeq([i \in 1..n |-> displacements[i][c]])

\* C10 as stated: when the displacements are applied they sum to the zero
\* vector over the nodes, and no node has moved since the step began.
C10_DisplacementsSumToZero ==
    pc = "apply" =>
        /\ positions = step_start
        /\ \A c \in 1..3 : DisplacementSum(c) = 0

\* C10 as amended: when the displacements are applied no node has moved
\* since the step began; they sum to the zero vector exactly on a graph of
\* at most two nodes, and otherwise up to the rounding of the accumulation:
\* in every coordinate the sum is at most 2 eps T B in magnitude, T the
\* number of forces applied and B the sum of their magnitudes.
C10_DisplacementsCancel ==
    pc = "apply" =>
        /\ positions = step_start
        /\ n <= 2 => \A c \in 1..3 : DisplacementSum(c) = 0
        /\ \A c \in 1..3 :
              Abs(DisplacementSum(c)) * EpsInv
                 <= 2 * Len(ForcesApplied)
                    * SumSeq([f \in 1..Len(ForcesApplied) |-> Abs(ForcesApplied[f].v[c])])

C10_Witness ==
    /\ pc = "apply"
    /\ n >= 3
    /\ \E e \in 1..Len(edge_pairs) : edge_pairs[e][1] = edge_pairs[e][2]
    /\ \E e, g \in 1..Len(edge_pairs) : e # g /\ edge_pairs[e] = edge_pairs[g]
    /\ \E c \in 1..3 : DisplacementSum(c) # 0

====
